---- MODULE Spec2Model ----
(***************************************************************************)
(* Model of sharktank/types/gguf_interop/base.py: the two entry points     *)
(* load_file and load_properties, the property extraction loop             *)
(* (_load_properties, _load_array, _sanitize_scalar) and the tensor        *)
(* reconstruction (_wrap_tensor, _externalize_tensor).                     *)
(*                                                                         *)
(* A GGUFReader is a record [fields, tensors].  A field is                 *)
(* [name, types, parts, data]; a tensor descriptor is                      *)
(* [name, shape, type_name, data] whose data is a flat numpy view          *)
(* [dtype, shape].  torch tensors are objects on a heap (a sequence; the   *)
(* index is the object identity) so that the identity-attached             *)
(* ExternalTensorTrait can be followed through views.                      *)
(***************************************************************************)
EXTENDS Integers, Sequences, FiniteSets, TLC

VARIABLES pc, entry, reader, fi, ti, properties, tensors, heap, dataReads,
          err, result

vars == <<pc, entry, reader, fi, ti, properties, tensors, heap, dataReads,
          err, result>>

----------------------------------------------------------------------------
(* Bounds of the explored inputs.                                          *)

MaxFields == 2

MaxRank == 3

----------------------------------------------------------------------------
(* Values.  Python values are records [t, v]: "str" carries code points,   *)
(* "np" a numpy scalar, "int" a Python scalar, "list" a sequence of values.*)

PyStr(codes) == [t |-> "str", v |-> codes]

NpScalar(n) == [t |-> "np", v |-> <<n>>]

PyScalar(n) == [t |-> "int", v |-> <<n>>]

PyList(items) == [t |-> "list", v |-> items]

\* The literal "GGUF" (base.py line 66) as code points.
SchemaValue == PyStr(<<71, 71, 85, 70>>)

SchemaKey == "schema"

\* Keys of GGUFReader.gguf_scalar_to_np among the explored GGUFValueType
\* tags; STRING and ARRAY are the two tags that are no key of it.
gguf_scalar_to_np == {"UINT32", "FLOAT32", "BOOL"}

NoError == [kind |-> "none", msg |-> "", arg |-> <<>>]

Raise(kind, msg, arg) == [kind |-> kind, msg |-> msg, arg |-> arg]

EmptyMap == [k \in {} |-> 0]

MapSet(m, k, val) == [x \in (DOMAIN m) \cup {k} |-> IF x = k THEN val ELSE m[x]]

----------------------------------------------------------------------------
(* Property extraction.                                                    *)

\* str(bytes(segment), encoding="utf8"): the segments of the explored
\* containers hold ASCII bytes, each of which decodes to its own code point.
DecodeUtf8(segment) == PyStr([i \in 1..Len(segment) |-> segment[i]])

_sanitize_scalar(scalar) ==
    IF scalar.t = "np" THEN PyScalar(scalar.v[1]) ELSE scalar

\* Outcome of _load_array: [err, value].
_load_array(field) ==
    IF Len(field.types) # 2
    THEN [err |-> Raise("ValueError", "Unsupported array type", field.types),
          value |-> PyList(<<>>)]
    ELSE LET element_type == field.types[2] IN
         IF element_type = "STRING"
         THEN [err |-> NoError,
               value |-> PyList([k \in 1..Len(field.data) |->
                                   DecodeUtf8(field.parts[field.data[k]])])]
         ELSE IF element_type \in gguf_scalar_to_np
         THEN [err |-> NoError,
               value |-> PyList([k \in 1..Len(field.data) |->
                   _sanitize_scalar(NpScalar(field.parts[field.data[k]][1]))])]
         ELSE [err |-> Raise("ValueError", "Unsupported array element type",
                             <<element_type>>),
               value |-> PyList(<<>>)]

\* One iteration of the loop of _load_properties: [err, properties].
LoadField(props, field) ==
    IF Len(field.types) = 1
    THEN LET curr_type == field.types[1] IN
         IF curr_type = "STRING"
         THEN [err |-> NoError,
               properties |-> MapSet(props, field.name,
                                  DecodeUtf8(field.parts[Len(field.parts)]))]
         ELSE IF curr_type \in gguf_scalar_to_np
         THEN [err |-> NoError,
               properties |-> MapSet(props, field.name,
                   _sanitize_scalar(NpScalar(field.parts[Len(field.parts)][1])))]
         ELSE [err |-> NoError, properties |-> props]
    ELSE IF field.types[1] = "ARRAY"
    THEN LET a == _load_array(field) IN
         IF a.err.kind = "none"
         THEN [err |-> NoError,
               properties |-> MapSet(props, field.name, a.value)]
         ELSE [err |-> a.err, properties |-> props]
    ELSE [err |-> Raise("ValueError", "Invalid field type.", <<>>),
          properties |-> props]

----------------------------------------------------------------------------
(* Tensor reconstruction.                                                  *)

RECURSIVE Prod(_)
Prod(shape) == IF shape = <<>> THEN 1 ELSE Head(shape) * Prod(Tail(shape))

\* Reversed leaving the on-disk order as it is.
Reversed_Identity(s) == s

\* list(reversed(logical_shape)), base.py line 115.
Reversed(s) == [i \in 1..Len(s) |-> s[Len(s) + 1 - i]]

None == [none |-> TRUE, dims |-> <<>>]

Some(shape) == [none |-> FALSE, dims |-> shape]

ItemSize(dtype) ==
    CASE dtype = "uint8" -> 1
      [] dtype = "int16" -> 2
      [] dtype = "bfloat16" -> 2
      [] dtype = "float32" -> 4

\* numpy ndarray.reshape(shape): fails unless the element counts agree.
NpReshape(arr, shape) ==
    IF Prod(arr.shape) = Prod(shape)
    THEN [err |-> NoError, arr |-> [dtype |-> arr.dtype, shape |-> shape]]
    ELSE [err |-> Raise("ValueError", "cannot reshape array", <<>>), arr |-> arr]

\* numpy ndarray.view(np.int16): regroups the bytes of the last axis.
NpViewInt16(arr) ==
    LET rank == Len(arr.shape)
        bytes == IF rank = 0 THEN 0 ELSE arr.shape[rank] * ItemSize(arr.dtype)
    IN IF ItemSize(arr.dtype) = 2
       THEN [err |-> NoError, arr |-> [dtype |-> "int16", shape |-> arr.shape]]
       ELSE IF rank = 0 \/ bytes % 2 # 0
       THEN [err |-> Raise("ValueError", "cannot view as int16", <<>>), arr |-> arr]
       ELSE [err |-> NoError,
             arr |-> [dtype |-> "int16",
                      shape |-> [i \in 1..rank |->
                                   IF i = rank THEN bytes \div 2 ELSE arr.shape[i]]]]

NoTrait == [set |-> FALSE, external_name |-> "", external_scope |-> ""]

\* ExternalTensorTrait(external_name=name, external_scope="")
ExternalTensorTrait(name) ==
    [set |-> TRUE, external_name |-> name, external_scope |-> ""]

\* torch.as_tensor(arr): a new tensor object sharing the array's memory.
AsTensor(h, arr) ==
    Append(h, [dtype |-> arr.dtype, shape |-> arr.shape, trait |-> NoTrait])

\* ExternalTensorTrait.set(tensor): the trait becomes an attribute of that object.
SetTrait(h, id, trait) == [h EXCEPT ![id].trait = trait]

\* torch.Tensor.view(dtype=...) between equal item sizes: a new tensor object
\* of the same shape; Python attributes of the source object are not carried.
TorchViewDtype(h, id, dtype) ==
    Append(h, [dtype |-> dtype, shape |-> h[id].shape, trait |-> NoTrait])

\* Outcome of _externalize_tensor: [err, heap, obj].
_externalize_tensor(h, name, data, logical_shape) ==
    LET r == IF logical_shape.none
             THEN [err |-> NoError, arr |-> data]
             ELSE NpReshape(data, logical_shape.dims)
    IN IF r.err.kind # "none"
       THEN [err |-> r.err, heap |-> h, obj |-> 0]
       ELSE LET h1 == AsTensor(h, r.arr)
                data_tensor == Len(h1)
            IN [err |-> NoError,
                heap |-> SetTrait(h1, data_tensor, ExternalTensorTrait(name)),
                obj |-> data_tensor]

_quantized_types ==
    [n \in {"Q4_1", "Q4_K", "Q5_K", "Q6_K", "Q8_0"} |->
        CASE n = "Q4_1" -> "layouts.Q4_1"
          [] n = "Q4_K" -> "layouts.Q4_K"
          [] n = "Q5_K" -> "layouts.Q5_K"
          [] n = "Q6_K" -> "layouts.Q6_K"
          [] n = "Q8_0" -> "layouts.Q8_0"]

NoLeaf == [cls |-> "", name |-> "", obj |-> 0, shape |-> <<>>]

\* DefaultPrimitiveTensor(name=, data=): keeps the given tensor object; its
\* shape is the shape of that object.
DefaultPrimitiveTensor(h, name, data) ==
    [cls |-> "DefaultPrimitiveTensor", name |-> name, obj |-> data,
     shape |-> h[data].shape]

\* quantized_type(name=, raw=, shape=): keeps the raw tensor object and the
\* shape it is given.
QuantizedTensor(cls, name, raw, shape) ==
    [cls |-> cls, name |-> name, obj |-> raw, shape |-> shape]

WrapFail(h, e) == [err |-> e, heap |-> h, leaf |-> NoLeaf]

\* Lines 116-119: F16, F32 and F64 are materialized with the logical shape.
WrapPlain(h, name, logical_shape, data) ==
    LET e == _externalize_tensor(h, name, data, Some(logical_shape)) IN
    IF e.err.kind # "none" THEN WrapFail(h, e.err)
    ELSE [err |-> NoError, heap |-> e.heap,
          leaf |-> DefaultPrimitiveTensor(e.heap, name, e.obj)]

\* WrapBF16 without the assertion of line 122.
WrapBF16_NoAssert(h, name, logical_shape, data) ==
    LET v == NpViewInt16(data) IN
    IF v.err.kind # "none" THEN WrapFail(h, v.err)
    ELSE LET e == _externalize_tensor(h, name, v.arr, Some(logical_shape)) IN
         IF e.err.kind # "none" THEN WrapFail(h, e.err)
         ELSE LET h2 == TorchViewDtype(e.heap, e.obj, "bfloat16") IN
              [err |-> NoError, heap |-> h2,
               leaf |-> DefaultPrimitiveTensor(h2, name, Len(h2))]

\* Lines 121-128: the bytes are viewed as int16, materialized and tagged,
\* and the bfloat16 view of the tagged tensor becomes the leaf's data.
WrapBF16(h, name, logical_shape, data) ==
    IF data.dtype # "uint8"
    THEN WrapFail(h, Raise("AssertionError", "", <<>>))
    ELSE LET v == NpViewInt16(data) IN
         IF v.err.kind # "none" THEN WrapFail(h, v.err)
         ELSE LET e == _externalize_tensor(h, name, v.arr, Some(logical_shape)) IN
              IF e.err.kind # "none" THEN WrapFail(h, e.err)
              ELSE LET h2 == TorchViewDtype(e.heap, e.obj, "bfloat16") IN
                   [err |-> NoError, heap |-> h2,
                    leaf |-> DefaultPrimitiveTensor(h2, name, Len(h2))]

\* WrapQuantized handing the logical shape to _externalize_tensor.
WrapQuantized_Reshaped(h, name, logical_shape, type_name, data) ==
    LET e == _externalize_tensor(h, name, data, Some(logical_shape)) IN
    IF e.err.kind # "none" THEN WrapFail(h, e.err)
    ELSE [err |-> NoError, heap |-> e.heap,
          leaf |-> QuantizedTensor(_quantized_types[type_name], name, e.obj,
                                   logical_shape)]

\* Lines 130-136: the raw view is materialized without a shape and handed,
\* with the logical shape, to the layout selected by the type name.
WrapQuantized(h, name, logical_shape, type_name, data) ==
    LET e == _externalize_tensor(h, name, data, None) IN
    [err |-> NoError, heap |-> e.heap,
     leaf |-> QuantizedTensor(_quantized_types[type_name], name, e.obj,
                              logical_shape)]

\* WrapUnsupported falling off the end of the function (returning None).
WrapUnsupported_NoRaise(h, type_name) ==
    [err |-> NoError, heap |-> h, leaf |-> NoLeaf]

\* Line 138.
WrapUnsupported(h, type_name) ==
    WrapFail(h, Raise("ValueError", "Unsupported gguf tensor type", <<type_name>>))

\* Outcome of _wrap_tensor: [err, heap, leaf].
_wrap_tensor(h, name, declared_shape, type_name, data) ==
    LET logical_shape == Reversed(declared_shape) IN
    IF type_name \in {"F16", "F32", "F64"}
    THEN WrapPlain(h, name, logical_shape, data)
    ELSE IF type_name = "BF16"
    THEN WrapBF16(h, name, logical_shape, data)
    ELSE IF type_name \in DOMAIN _quantized_types
    THEN WrapQuantized(h, name, logical_shape, type_name, data)
    ELSE WrapUnsupported(h, type_name)

\* Theta(tensors): the namespace keeps the leaves of the mapping it is given.
Theta(tensorMap) == tensorMap

\* Dataset(properties=, root_theta=)
Dataset(props, root_theta) ==
    [kind |-> "Dataset", properties |-> props, root_theta |-> root_theta]

NoResult == [kind |-> "none", properties |-> EmptyMap, root_theta |-> EmptyMap]

----------------------------------------------------------------------------
(* The containers a GGUFReader is opened on.                               *)

FieldNames == {"schema", "a", "w"}

\* Tag lists the reader produces: scalars, arrays (an empty array carries the
\* single tag ARRAY, a nested array three tags) and malformed lists.
FieldTypeLists ==
    { <<"STRING">>, <<"UINT32">>, <<"ARRAY">>,
      <<"ARRAY", "STRING">>, <<"ARRAY", "UINT32">>, <<"ARRAY", "ARRAY">>,
      <<"ARRAY", "ARRAY", "UINT32">>, <<"UINT32", "UINT32">> }

SampleParts == << <<120>>, <<121, 122>> >>

SampleData == <<1, 2>>

Fields ==
    { [name |-> n, types |-> tl, parts |-> SampleParts, data |-> SampleData] :
        n \in FieldNames, tl \in FieldTypeLists }

FieldLists == UNION { [1..k -> Fields] : k \in 0..MaxFields }

TensorNames == {"a", "w"}

PlainTypes == {"F16", "F32", "F64"}

\* Declared type names the loader dispatches on, and two it does not know.
UnsupportedTypes == {"Q4_0", "UNKNOWN_X"}

TypeNames == PlainTypes \cup {"BF16"} \cup DOMAIN _quantized_types \cup UnsupportedTypes

\* On-disk shapes [2], [2,3], [2,3,4], ... and the rank-0 shape.
Shapes == { [i \in 1..r |-> i + 1] : r \in 0..MaxRank }

\* Flat raw views: the element count of the declared shape as native
\* elements or as bytes, and two bytes per declared element.
DataViews(shape) ==
    { [dtype |-> "float32", shape |-> <<Prod(shape)>>],
      [dtype |-> "uint8", shape |-> <<Prod(shape)>>],
      [dtype |-> "uint8", shape |-> <<2 * Prod(shape)>>] }

TensorBodies ==
    UNION { { [shape |-> sh, type_name |-> ty, data |-> d] :
                ty \in TypeNames, d \in DataViews(sh) } : sh \in Shapes }

\* The reader rejects duplicate tensor names, so the descriptors of one
\* container carry pairwise distinct names.
TensorNameLists ==
    { ns \in UNION { [1..k -> TensorNames] : k \in 0..Cardinality(TensorNames) } :
        \A i, j \in 1..Len(ns) : i # j => ns[i] # ns[j] }

Descriptors(ns, bodies) ==
    [i \in 1..Len(ns) |->
        [name |-> ns[i], shape |-> bodies[i].shape,
         type_name |-> bodies[i].type_name, data |-> bodies[i].data]]

FewTensorLists ==
    { <<>>,
      << [name |-> "a", shape |-> <<2>>, type_name |-> "F32",
          data |-> [dtype |-> "float32", shape |-> <<2>>]] >>,
      << [name |-> "w", shape |-> <<2>>, type_name |-> "UNKNOWN_X",
          data |-> [dtype |-> "uint8", shape |-> <<2>>]] >> }

FewFieldLists ==
    { << [name |-> "a", types |-> <<"STRING">>, parts |-> SampleParts,
          data |-> SampleData] >> }

\* GGUFReader(gguf_path): containers rich in fields with few tensors, and
\* containers rich in tensors with few fields.
IsContainer(c) ==
    \/ \E f \in FieldLists, t \in FewTensorLists :
          c = [fields |-> f, tensors |-> t]
    \/ \E f \in FewFieldLists, ns \in TensorNameLists :
          \E bodies \in [1..Len(ns) -> TensorBodies] :
             c = [fields |-> f, tensors |-> Descriptors(ns, bodies)]

NoReader == [fields |-> <<>>, tensors |-> <<>>]

----------------------------------------------------------------------------
(* The program.                                                            *)

Init ==
    /\ pc = "start"
    /\ entry = "none"
    /\ reader = NoReader
    /\ fi = 0
    /\ ti = 0
    /\ properties = EmptyMap
    /\ tensors = EmptyMap
    /\ heap = <<>>
    /\ dataReads = {}
    /\ err = NoError
    /\ result = NoResult

\* load_file, lines 142-149: open the reader and enter _load_properties,
\* which seeds the mapping (lines 65-67).
CallLoadFile ==
    /\ pc = "start"
    /\ IsContainer(reader')
    /\ entry' = "load_file"
    /\ properties' = [k \in {SchemaKey} |-> SchemaValue]
    /\ fi' = 1
    /\ pc' = "fields"
    /\ UNCHANGED <<ti, tensors, heap, dataReads, err, result>>

\* load_properties, lines 166-168.
CallLoadProperties ==
    /\ pc = "start"
    /\ IsContainer(reader')
    /\ entry' = "load_properties"
    /\ properties' = [k \in {SchemaKey} |-> SchemaValue]
    /\ fi' = 1
    /\ pc' = "fields"
    /\ UNCHANGED <<ti, tensors, heap, dataReads, err, result>>

\* One iteration of `for field in reader.fields.values()`, lines 70-80.
LoadPropertiesStep ==
    /\ pc = "fields"
    /\ fi <= Len(reader.fields)
    /\ LET r == LoadField(properties, reader.fields[fi]) IN
       IF r.err.kind = "none"
       THEN /\ properties' = r.properties
            /\ fi' = fi + 1
            /\ UNCHANGED <<pc, err>>
       ELSE /\ err' = r.err
            /\ pc' = "raised"
            /\ UNCHANGED <<properties, fi>>
    /\ UNCHANGED <<entry, reader, ti, tensors, heap, dataReads, result>>

\* `return properties` (line 81) back into load_properties (line 168).
ReturnProperties ==
    /\ pc = "fields"
    /\ fi > Len(reader.fields)
    /\ entry = "load_properties"
    /\ result' = [kind |-> "properties", properties |-> properties,
                  root_theta |-> EmptyMap]
    /\ pc' = "returned"
    /\ UNCHANGED <<entry, reader, fi, ti, properties, tensors, heap, dataReads, err>>

\* BeginTensors entered from either entry point.
BeginTensors_AnyEntry ==
    /\ pc = "fields"
    /\ fi > Len(reader.fields)
    /\ tensors' = EmptyMap
    /\ ti' = 1
    /\ pc' = "tensors"
    /\ UNCHANGED <<entry, reader, fi, properties, heap, dataReads, err, result>>

\* `return properties` (line 81) back into load_file (lines 149-152).
BeginTensors ==
    /\ pc = "fields"
    /\ fi > Len(reader.fields)
    /\ entry = "load_file"
    /\ tensors' = EmptyMap
    /\ ti' = 1
    /\ pc' = "tensors"
    /\ UNCHANGED <<entry, reader, fi, properties, heap, dataReads, err, result>>

\* One iteration of `for tensor in reader.tensors`, lines 153-161.
WrapTensorStep ==
    /\ pc = "tensors"
    /\ ti <= Len(reader.tensors)
    /\ LET tensor == reader.tensors[ti]
           w == _wrap_tensor(heap, tensor.name, tensor.shape, tensor.type_name,
                             tensor.data)
       IN /\ dataReads' = dataReads \cup {tensor.name}
          /\ IF w.err.kind = "none"
             THEN /\ heap' = w.heap
                  /\ tensors' = MapSet(tensors, tensor.name, w.leaf)
                  /\ ti' = ti + 1
                  /\ UNCHANGED <<pc, err>>
             ELSE /\ err' = w.err
                  /\ pc' = "raised"
                  /\ UNCHANGED <<heap, tensors, ti>>
    /\ UNCHANGED <<entry, reader, fi, properties, result>>

\* Lines 162-163: Theta(tensors) and the Dataset.
LoadFileReturn ==
    /\ pc = "tensors"
    /\ ti > Len(reader.tensors)
    /\ result' = Dataset(properties, Theta(tensors))
    /\ pc' = "returned"
    /\ UNCHANGED <<entry, reader, fi, ti, properties, tensors, heap, dataReads, err>>

Next ==
    \/ CallLoadFile
    \/ CallLoadProperties
    \/ LoadPropertiesStep
    \/ ReturnProperties
    \/ BeginTensors
    \/ WrapTensorStep
    \/ LoadFileReturn

Spec == Init /\ [][Next]_vars

----------------------------------------------------------------------------
(* Vocabulary of the properties.                                           *)

NFields == Len(reader.fields)

NTensors == Len(reader.tensors)

\* b is a read backwards.
IsReverseOf(a, b) ==
    /\ Len(a) = Len(b)
    /\ \A k \in 1..Len(a) : b[k] = a[Len(a) + 1 - k]

\* Field i has exactly one tag, neither STRING nor a known numeric scalar tag.
BadSingleTag(i) ==
    /\ Len(reader.fields[i].types) = 1
    /\ reader.fields[i].types[1] # "STRING"
    /\ reader.fields[i].types[1] \notin gguf_scalar_to_np

\* Field i is an array field whose tag list does not have exactly two tags.
BadArrayTags(i) ==
    /\ reader.fields[i].types[1] = "ARRAY"
    /\ Len(reader.fields[i].types) # 2

\* The loop over the fields has gone past field i without raising.
FieldPassed(i) == pc \in {"fields", "tensors", "returned", "raised"} /\ fi > i

\* The loop over the fields raised at field i.
FieldRaisedAt(i) == pc = "raised" /\ ti = 0 /\ fi = i

\* _load_properties has returned its mapping to the entry point.
PropertiesReturned == pc \in {"tensors", "returned"} \/ (pc = "raised" /\ ti > 0)

DistinctFieldNames ==
    \A i, j \in 1..NFields : i # j => reader.fields[i].name # reader.fields[j].name

FieldNamesOf == { reader.fields[i].name : i \in 1..NFields }

\* Tensor i has been reconstructed and stored in the mapping.
Dispatched(i) == pc \in {"tensors", "returned", "raised"} /\ i < ti

QuantizedNames == {"Q4_1", "Q4_K", "Q5_K", "Q6_K", "Q8_0"}

SupportedNames == {"F16", "F32", "F64", "BF16"} \cup QuantizedNames

UnsupportedAt == { i \in 1..NTensors : reader.tensors[i].type_name \notin SupportedNames }

FirstUnsupported == CHOOSE i \in UnsupportedAt : \A j \in UnsupportedAt : i <= j

TensorErrors ==
    {"Unsupported gguf tensor type", "cannot reshape array", "cannot view as int16"}

----------------------------------------------------------------------------
(* C1: every field with exactly one type tag that is neither STRING nor a  *)
(* known numeric scalar tag makes property extraction fail with an         *)
(* "invalid field type" error naming the field; the extraction never gets  *)
(* past such a field.                                                      *)
C1_InvalidSingleTagFails ==
    \A i \in 1..NFields :
       BadSingleTag(i) =>
          /\ ~FieldPassed(i)
          /\ FieldRaisedAt(i) =>
                /\ err.msg = "Invalid field type."
                /\ err.arg = <<reader.fields[i].name>>

(* C2: when the field names are pairwise distinct and property extraction  *)
(* returns a mapping, every field contributes exactly one entry keyed by   *)
(* its name: M fields give exactly M+1 keys, the field names and "schema". *)
C2_NoFieldDropped ==
    (PropertiesReturned /\ DistinctFieldNames) =>
       /\ FieldNamesOf \subseteq DOMAIN properties
       /\ SchemaKey \in DOMAIN properties
       /\ Cardinality(DOMAIN properties) = NFields + 1

(* C3: every field whose first tag is ARRAY and whose number of tags is    *)
(* not two makes property extraction fail with an "unsupported array type" *)
(* error identifying the tag list.                                         *)
C3_BadArrayTagsFail ==
    \A i \in 1..NFields :
       BadArrayTags(i) =>
          /\ ~FieldPassed(i)
          /\ FieldRaisedAt(i) =>
                /\ err.msg = "Unsupported array type"
                /\ err.arg = reader.fields[i].types

(* C4: the tensor object stored in each leaf of the mapping (and of the    *)
(* returned namespace) is the object that carries the external-ownership   *)
(* annotation with the tensor's name and an empty scope.                   *)
C4_TagOnStoredLeaf ==
    /\ \A n \in DOMAIN tensors :
          heap[tensors[n].obj].trait =
             [set |-> TRUE, external_name |-> n, external_scope |-> ""]
    /\ \A n \in DOMAIN result.root_theta :
          heap[result.root_theta[n].obj].trait =
             [set |-> TRUE, external_name |-> n, external_scope |-> ""]

(* C5: whenever property extraction succeeds, the mapping handed back      *)
(* (by load_properties, or inside the Dataset of load_file) has the key    *)
(* "schema" with the value "GGUF".                                         *)
C5_SchemaIsGGUF ==
    /\ PropertiesReturned =>
          /\ SchemaKey \in DOMAIN properties
          /\ properties[SchemaKey] = [t |-> "str", v |-> <<71, 71, 85, 70>>]
    /\ result.kind \in {"properties", "Dataset"} =>
          /\ SchemaKey \in DOMAIN result.properties
          /\ result.properties[SchemaKey] = [t |-> "str", v |-> <<71, 71, 85, 70>>]

(* C6: every tensor that was dispatched successfully, whatever its         *)
(* declared type and rank, has as logical shape its on-disk shape          *)
(* reversed; for a primitive tensor that is also the shape of the stored   *)
(* tensor object.                                                          *)
C6_ShapeReversed ==
    /\ \A i \in 1..NTensors :
          Dispatched(i) =>
             LET t == reader.tensors[i]
                 leaf == tensors[t.name]
             IN /\ IsReverseOf(t.shape, leaf.shape)
                /\ leaf.cls = "DefaultPrimitiveTensor" =>
                      IsReverseOf(t.shape, heap[leaf.obj].shape)
    /\ result.kind = "Dataset" =>
          \A i \in 1..NTensors :
             /\ reader.tensors[i].name \in DOMAIN result.root_theta
             /\ IsReverseOf(reader.tensors[i].shape,
                            result.root_theta[reader.tensors[i].name].shape)

\* A Dataset holding a rank-3 BF16 tensor of logical shape [4,3,2] and a
\* rank-1 quantized tensor of logical shape [2].
C6_Witness ==
    /\ result.kind = "Dataset"
    /\ \E i, j \in 1..NTensors :
          /\ reader.tensors[i].type_name = "BF16"
          /\ reader.tensors[i].shape = <<2, 3, 4>>
          /\ result.root_theta[reader.tensors[i].name].shape = <<4, 3, 2>>
          /\ reader.tensors[j].type_name \in QuantizedNames
          /\ reader.tensors[j].shape = <<2>>
          /\ result.root_theta[reader.tensors[j].name].shape = <<2>>

\* An unsupported declared type is met by load_file.
HasUnsupported == entry = "load_file" /\ UnsupportedAt # {}

UnsupportedError(i) ==
    /\ err.kind = "ValueError"
    /\ err.msg = "Unsupported gguf tensor type"
    /\ err.arg = <<reader.tensors[i].type_name>>

(* C7 as stated: when some tensor has an unsupported declared type,        *)
(* load_file ends with the "unsupported gguf tensor type" error naming     *)
(* such a type and returns no Dataset.                                     *)
C7_AlwaysUnsupportedError ==
    (HasUnsupported /\ pc \in {"raised", "returned"}) =>
       /\ pc = "raised"
       /\ result.kind = "none"
       /\ \E i \in UnsupportedAt : UnsupportedError(i)

(* C7 amended: when some tensor has an unsupported declared type,          *)
(* load_file returns no Dataset and never gets past the first such tensor; *)
(* when property extraction and all earlier tensors succeeded, the failure *)
(* is the "unsupported gguf tensor type" error naming that tensor's type.  *)
(* A Dataset is returned only when every tensor was reconstructed.         *)
C7_NoDatasetWithUnsupported ==
    /\ HasUnsupported =>
          /\ pc # "returned"
          /\ result.kind = "none"
          /\ ti <= FirstUnsupported
          /\ (pc = "raised" /\ ti = FirstUnsupported) =>
                UnsupportedError(FirstUnsupported)
    /\ result.kind = "Dataset" =>
          /\ UnsupportedAt = {}
          /\ \A i \in 1..NTensors : reader.tensors[i].name \in DOMAIN result.root_theta

\* The second tensor is of the unsupported type Q4_0, the first one was
\* reconstructed, and load_file raised naming Q4_0.
C7_Witness ==
    /\ entry = "load_file"
    /\ pc = "raised"
    /\ ti = 2
    /\ UnsupportedAt = {2}
    /\ FirstUnsupported = 2
    /\ reader.tensors[2].type_name = "Q4_0"
    /\ Len(heap) > 0
    /\ DOMAIN tensors = {reader.tensors[1].name}
    /\ UnsupportedError(2)

ExpectedLayout ==
    { <<"Q4_1", "layouts.Q4_1">>, <<"Q4_K", "layouts.Q4_K">>,
      <<"Q5_K", "layouts.Q5_K">>, <<"Q6_K", "layouts.Q6_K">>,
      <<"Q8_0", "layouts.Q8_0">> }

(* C9: for every dispatched tensor of a quantized type, the constructor    *)
(* used is the one mapped to that type name, the raw tensor it receives    *)
(* is the input view unreshaped (same shape, hence same flat length, and   *)
(* same element type), and the shape it receives is the on-disk shape      *)
(* reversed.                                                               *)
C9_QuantizedRawUnreshaped ==
    \A i \in 1..NTensors :
       (Dispatched(i) /\ reader.tensors[i].type_name \in QuantizedNames) =>
          LET t == reader.tensors[i]
              leaf == tensors[t.name]
          IN /\ <<t.type_name, leaf.cls>> \in ExpectedLayout
             /\ heap[leaf.obj].shape = t.data.shape
             /\ heap[leaf.obj].dtype = t.data.dtype
             /\ Prod(heap[leaf.obj].shape) = Prod(t.data.shape)
             /\ IsReverseOf(t.shape, leaf.shape)

\* A dispatched rank-2 Q6_K tensor whose raw byte count differs from the
\* element count of its shape.
C9_Witness ==
    \E i \in 1..NTensors :
       /\ Dispatched(i)
       /\ reader.tensors[i].type_name = "Q6_K"
       /\ reader.tensors[i].shape = <<2, 3>>
       /\ Prod(reader.tensors[i].data.shape) # Prod(reader.tensors[i].shape)
       /\ tensors[reader.tensors[i].name].shape = <<3, 2>>

\* load_file is about to dispatch a tensor declared BF16.
AtBF16 ==
    /\ pc = "tensors"
    /\ ti <= NTensors
    /\ reader.tensors[ti].type_name = "BF16"

(* C10: dispatching a BF16 tensor whose raw element type is not uint8      *)
(* fails with an assertion failure and creates or tags no tensor object;   *)
(* with uint8 storage of exactly two bytes per declared element it         *)
(* succeeds: the tagged tensor is int16 of the reversed shape, and the     *)
(* stored tensor is its bfloat16 view of the same shape and element count. *)
C10_BF16Dispatch ==
    [][ AtBF16 =>
          LET t == reader.tensors[ti] IN
          /\ t.data.dtype # "uint8" =>
                /\ pc' = "raised"
                /\ err'.kind = "AssertionError"
                /\ heap' = heap
                /\ tensors' = tensors
          /\ (t.data.dtype = "uint8" /\ Prod(t.data.shape) = 2 * Prod(t.shape)) =>
                /\ pc' = "tensors"
                /\ ti' = ti + 1
                /\ Len(heap') = Len(heap) + 2
                /\ heap'[Len(heap) + 1].dtype = "int16"
                /\ IsReverseOf(t.shape, heap'[Len(heap) + 1].shape)
                /\ tensors'[t.name].obj = Len(heap) + 2
                /\ heap'[Len(heap) + 2].dtype = "bfloat16"
                /\ IsReverseOf(t.shape, heap'[Len(heap) + 2].shape)
                /\ Prod(heap'[Len(heap) + 2].shape) = Prod(t.shape)
      ]_vars

\* A BF16 tensor of on-disk shape [2,3] was rebuilt as bfloat16 [3,2], and
\* the next BF16 tensor, stored as float32, failed the assertion.
C10_Witness ==
    /\ pc = "raised"
    /\ ti = 2
    /\ err.kind = "AssertionError"
    /\ reader.tensors[2].type_name = "BF16"
    /\ reader.tensors[2].data.dtype # "uint8"
    /\ reader.tensors[1].type_name = "BF16"
    /\ reader.tensors[1].shape = <<2, 3>>
    /\ heap[tensors[reader.tensors[1].name].obj].dtype = "bfloat16"
    /\ heap[tensors[reader.tensors[1].name].obj].shape = <<3, 2>>

====
